---- MODULE Spec2Model ----
(***************************************************************************)
(* Buffer manager of BadgerDB (src/src/buffer.cpp): a pool of numBufs      *)
(* frames, one descriptor per frame, a hash table from (file, page number) *)
(* to frame, and a clock hand.  Every public operation of BufMgr is one    *)
(* operator from the state and the arguments to the outcome of the call:   *)
(* how it ended, the state it left (an operation that throws leaves the    *)
(* state it had reached) and the writePage calls it issued.  The actions   *)
(* install these outcomes.                                                 *)
(***************************************************************************)
EXTENDS Integers, FiniteSets, Sequences, TLC

\* ---------------------------------------------------------------- bounds
numBufs == 2          \* frames of the pool (constructor argument bufs)
NumFiles == 2         \* open files
MaxPage == 2          \* largest page number a file hands out
MaxPin == 2           \* cap on a frame's pin count

INVALID_NUMBER == 0   \* Page::INVALID_NUMBER, page number of a default Page
NoFile == 0           \* a default-constructed File

Files == 1..NumFiles
Pages == 1..MaxPage
Frames == 0..(numBufs - 1)
Keys == Files \X Pages

VARIABLES
    bufDescTable,     \* frame -> descriptor
    bufPool,          \* frame -> page number carried by the content held there
    hashTable,        \* function from a set of keys <<file, pageNo>> to frames
    clockHand,        \* the clock hand
    filePages         \* file -> page numbers that exist in the file

vars == <<bufDescTable, bufPool, hashTable, clockHand, filePages>>

\* ------------------------------------------------------------ BufDesc
\* BufDesc::clear(): every field back to the invalid state.
ClearedDesc ==
    [valid |-> FALSE, refbit |-> FALSE, dirty |-> FALSE, pinCnt |-> 0,
     file |-> NoFile, pageNo |-> INVALID_NUMBER]

\* BufDesc::Set(file, pageNo): an occupied frame holding one pin.
SetDesc(file, pageNo) ==
    [valid |-> TRUE, refbit |-> TRUE, dirty |-> FALSE, pinCnt |-> 1,
     file |-> file, pageNo |-> pageNo]

\* ---------------------------------------------------------- BufHashTbl
\* lookup succeeds exactly on the keys present.
HashHas(ht, file, pageNo) == <<file, pageNo>> \in DOMAIN ht

HashLookup(ht, file, pageNo) == ht[<<file, pageNo>>]

HashInsert(ht, file, pageNo, frameNo) ==
    [k \in (DOMAIN ht) \cup {<<file, pageNo>>} |->
        IF k = <<file, pageNo>> THEN frameNo ELSE ht[k]]

HashRemove(ht, file, pageNo) ==
    [k \in (DOMAIN ht) \ {<<file, pageNo>>} |-> ht[k]]

EmptyHash == [k \in {} |-> 0]

\* ------------------------------------------------------------ advanceClock
advanceClock(hand) == (hand + 1) % numBufs

\* ---------------------------------------------------------------- allocBuf
\* The loop of allocBuf without the second chance: the refbit is not looked at.
RECURSIVE allocBufLoopNoSecondChance(_, _, _, _, _, _)
allocBufLoopNoSecondChance(count, hand, descs, ht, writes, inspected) ==
    IF count > numBufs * 2
    THEN [status |-> "BufferExceeded", frame |-> -1, descs |-> descs, ht |-> ht,
          hand |-> hand, writes |-> writes, inspected |-> inspected]
    ELSE
      LET h == advanceClock(hand)
          desc == descs[h]
          file == desc.file
          page == bufPool[h]
      IN IF desc.valid
         THEN IF TRUE
              THEN IF desc.pinCnt = 0
                   THEN LET w == IF desc.dirty THEN writes \cup {<<file, page>>}
                                 ELSE writes
                            cleared == [descs EXCEPT ![h] = ClearedDesc]
                        IN IF HashHas(ht, file, page)
                           THEN [status |-> "ok", frame |-> h, descs |-> cleared,
                                 ht |-> HashRemove(ht, file, page), hand |-> h,
                                 writes |-> w, inspected |-> inspected + 1]
                           ELSE [status |-> "HashNotFound", frame |-> -1,
                                 descs |-> cleared, ht |-> ht, hand |-> h,
                                 writes |-> w, inspected |-> inspected + 1]
                   ELSE allocBufLoopNoSecondChance(count + 1, h, descs, ht, writes, inspected + 1)
              ELSE allocBufLoopNoSecondChance(count + 1, h,
                                [descs EXCEPT ![h].refbit = FALSE],
                                ht, writes, inspected + 1)
         ELSE [status |-> "ok", frame |-> h, descs |-> descs, ht |-> ht,
               hand |-> h, writes |-> writes, inspected |-> inspected + 1]

\* The loop of allocBuf giving up one inspection early.
RECURSIVE allocBufLoopShortSweep(_, _, _, _, _, _)
allocBufLoopShortSweep(count, hand, descs, ht, writes, inspected) ==
    IF count > numBufs * 2 - 1
    THEN [status |-> "BufferExceeded", frame |-> -1, descs |-> descs, ht |-> ht,
          hand |-> hand, writes |-> writes, inspected |-> inspected]
    ELSE
      LET h == advanceClock(hand)
          desc == descs[h]
          file == desc.file
          page == bufPool[h]
      IN IF desc.valid
         THEN IF ~desc.refbit
              THEN IF desc.pinCnt = 0
                   THEN LET w == IF desc.dirty THEN writes \cup {<<file, page>>}
                                 ELSE writes
                            cleared == [descs EXCEPT ![h] = ClearedDesc]
                        IN IF HashHas(ht, file, page)
                           THEN [status |-> "ok", frame |-> h, descs |-> cleared,
                                 ht |-> HashRemove(ht, file, page), hand |-> h,
                                 writes |-> w, inspected |-> inspected + 1]
                           ELSE [status |-> "HashNotFound", frame |-> -1,
                                 descs |-> cleared, ht |-> ht, hand |-> h,
                                 writes |-> w, inspected |-> inspected + 1]
                   ELSE allocBufLoopShortSweep(count + 1, h, descs, ht, writes, inspected + 1)
              ELSE allocBufLoopShortSweep(count + 1, h,
                                [descs EXCEPT ![h].refbit = FALSE],
                                ht, writes, inspected + 1)
         ELSE [status |-> "ok", frame |-> h, descs |-> descs, ht |-> ht,
               hand |-> h, writes |-> writes, inspected |-> inspected + 1]

\* The loop of allocBuf, one call per iteration.  The result records the
\* outcome, the frame handed out, the state reached, the writePage calls
\* issued (<<file, page number>>) and how many descriptors were inspected.
RECURSIVE allocBufLoop(_, _, _, _, _, _)
allocBufLoop(count, hand, descs, ht, writes, inspected) ==
    IF count > numBufs * 2
    THEN [status |-> "BufferExceeded", frame |-> -1, descs |-> descs, ht |-> ht,
          hand |-> hand, writes |-> writes, inspected |-> inspected]
    ELSE
      LET h == advanceClock(hand)
          desc == descs[h]
          file == desc.file
          page == bufPool[h]
      IN IF desc.valid
         THEN IF ~desc.refbit
              THEN IF desc.pinCnt = 0
                   THEN LET w == IF desc.dirty THEN writes \cup {<<file, page>>}
                                 ELSE writes
                            cleared == [descs EXCEPT ![h] = ClearedDesc]
                        IN IF HashHas(ht, file, page)
                           THEN [status |-> "ok", frame |-> h, descs |-> cleared,
                                 ht |-> HashRemove(ht, file, page), hand |-> h,
                                 writes |-> w, inspected |-> inspected + 1]
                           ELSE [status |-> "HashNotFound", frame |-> -1,
                                 descs |-> cleared, ht |-> ht, hand |-> h,
                                 writes |-> w, inspected |-> inspected + 1]
                   ELSE allocBufLoop(count + 1, h, descs, ht, writes, inspected + 1)
              ELSE allocBufLoop(count + 1, h,
                                [descs EXCEPT ![h].refbit = FALSE],
                                ht, writes, inspected + 1)
         ELSE [status |-> "ok", frame |-> h, descs |-> descs, ht |-> ht,
               hand |-> h, writes |-> writes, inspected |-> inspected + 1]

allocBuf == allocBufLoop(1, clockHand, bufDescTable, hashTable, {}, 0)

\* ------------------------------------------------------------ outcomes
\* What a call leaves behind: how it ended (status), the five parts of the
\* state, the frame it used (-1 if none) and the set of writePage calls it
\* made, each <<file written to, page number of the content>>.
Outcome(status, frame, descs, pool, ht, hand, files, writes) ==
    [status |-> status, frame |-> frame, descs |-> descs, pool |-> pool,
     ht |-> ht, hand |-> hand, files |-> files, writes |-> writes]

\* ---------------------------------------------------------------- readPage
\* readPage with a hit that pins the frame but leaves its refbit as it was.
readPageHitKeepsRefbit(file, pageNo) ==
    IF HashHas(hashTable, file, pageNo)
    THEN LET frameNo == HashLookup(hashTable, file, pageNo)
         IN Outcome("hit", frameNo,
                    [bufDescTable EXCEPT ![frameNo].pinCnt = @ + 1],
                    bufPool, hashTable, clockHand, filePages, {})
    ELSE LET a == allocBuf
         IN IF a.status # "ok"
            THEN Outcome(a.status, -1, a.descs, bufPool, a.ht, a.hand, filePages,
                         a.writes)
            ELSE IF pageNo \notin filePages[file]
            THEN Outcome("InvalidPage", -1, a.descs, bufPool, a.ht, a.hand,
                         filePages, a.writes)
            ELSE IF HashHas(a.ht, file, pageNo)
            THEN Outcome("HashAlreadyPresent", -1, a.descs,
                         [bufPool EXCEPT ![a.frame] = pageNo], a.ht, a.hand,
                         filePages, a.writes)
            ELSE Outcome("miss", a.frame,
                         [a.descs EXCEPT ![a.frame] = SetDesc(file, pageNo)],
                         [bufPool EXCEPT ![a.frame] = pageNo],
                         HashInsert(a.ht, file, pageNo, a.frame), a.hand,
                         filePages, a.writes)

readPage(file, pageNo) ==
    IF HashHas(hashTable, file, pageNo)
    THEN LET frameNo == HashLookup(hashTable, file, pageNo)
         IN Outcome("hit", frameNo,
                    [bufDescTable EXCEPT ![frameNo].refbit = TRUE,
                                         ![frameNo].pinCnt = @ + 1],
                    bufPool, hashTable, clockHand, filePages, {})
    ELSE LET a == allocBuf
         IN IF a.status # "ok"
            THEN Outcome(a.status, -1, a.descs, bufPool, a.ht, a.hand, filePages,
                         a.writes)
            ELSE IF pageNo \notin filePages[file]
            THEN \* file.readPage throws: the frame stays as allocBuf left it
                 Outcome("InvalidPage", -1, a.descs, bufPool, a.ht, a.hand,
                         filePages, a.writes)
            ELSE IF HashHas(a.ht, file, pageNo)
            THEN \* hashTable.insert throws on a key already present
                 Outcome("HashAlreadyPresent", -1, a.descs,
                         [bufPool EXCEPT ![a.frame] = pageNo], a.ht, a.hand,
                         filePages, a.writes)
            ELSE Outcome("miss", a.frame,
                         [a.descs EXCEPT ![a.frame] = SetDesc(file, pageNo)],
                         [bufPool EXCEPT ![a.frame] = pageNo],
                         HashInsert(a.ht, file, pageNo, a.frame), a.hand,
                         filePages, a.writes)

\* --------------------------------------------------------------- unPinPage
\* unPinPage without the test for a pin count of 0.
unPinPageUnchecked(file, pageNo, dirty) ==
    IF ~HashHas(hashTable, file, pageNo)
    THEN Outcome("HashNotFound", -1, bufDescTable, bufPool, hashTable, clockHand,
                 filePages, {})
    ELSE LET frameNo == HashLookup(hashTable, file, pageNo)
         IN Outcome("ok", frameNo,
                    [bufDescTable EXCEPT
                       ![frameNo].dirty = IF dirty THEN TRUE ELSE @,
                       ![frameNo].pinCnt = @ - 1],
                    bufPool, hashTable, clockHand, filePages, {})

unPinPage(file, pageNo, dirty) ==
    IF ~HashHas(hashTable, file, pageNo)
    THEN \* hashTable.lookup throws and nothing catches it
         Outcome("HashNotFound", -1, bufDescTable, bufPool, hashTable, clockHand,
                 filePages, {})
    ELSE LET frameNo == HashLookup(hashTable, file, pageNo)
             desc == bufDescTable[frameNo]
         IN IF desc.pinCnt = 0
            THEN Outcome("PageNotPinned", frameNo, bufDescTable, bufPool, hashTable,
                         clockHand, filePages, {})
            ELSE Outcome("ok", frameNo,
                         [bufDescTable EXCEPT
                            ![frameNo].dirty = IF dirty THEN TRUE ELSE @,
                            ![frameNo].pinCnt = @ - 1],
                         bufPool, hashTable, clockHand, filePages, {})

\* --------------------------------------------------------------- allocPage
\* pageNo is the number file.allocatePage() gave the new page.
allocPage(file, pageNo) ==
    LET files == [filePages EXCEPT ![file] = @ \cup {pageNo}]
        a == allocBuf
    IN IF a.status # "ok"
       THEN Outcome(a.status, -1, a.descs, bufPool, a.ht, a.hand, files, a.writes)
       ELSE IF HashHas(a.ht, file, pageNo)
       THEN Outcome("HashAlreadyPresent", -1, a.descs,
                    [bufPool EXCEPT ![a.frame] = pageNo], a.ht, a.hand, files,
                    a.writes)
       ELSE Outcome("ok", a.frame,
                    [a.descs EXCEPT ![a.frame] = SetDesc(file, pageNo)],
                    [bufPool EXCEPT ![a.frame] = pageNo],
                    HashInsert(a.ht, file, pageNo, a.frame), a.hand, files,
                    a.writes)

\* --------------------------------------------------------------- flushFile
\* The loop of flushFile with the test for an invalid frame made before the
\* test for a pinned one.
RECURSIVE flushLoopValidFirst(_, _, _, _, _)
flushLoopValidFirst(file, i, descs, ht, writes) ==
    IF i >= numBufs
    THEN Outcome("ok", -1, descs, bufPool, ht, clockHand, filePages, writes)
    ELSE
      LET desc == descs[i]
          page == bufPool[i]
      IN IF ~desc.valid
         THEN Outcome("BadBuffer", i, descs, bufPool, ht, clockHand, filePages,
                      writes)
         ELSE IF desc.pinCnt # 0
         THEN Outcome("PagePinned", i, descs, bufPool, ht, clockHand, filePages,
                      writes)
         ELSE flushLoopValidFirst(file, i + 1,
                        [descs EXCEPT ![i] = ClearedDesc],
                        IF HashHas(ht, file, page) THEN HashRemove(ht, file, page)
                        ELSE ht,
                        IF desc.dirty THEN writes \cup {<<file, page>>} ELSE writes)

\* The loop of flushFile over the frames i, i+1, ..., numBufs-1.
RECURSIVE flushLoop(_, _, _, _, _)
flushLoop(file, i, descs, ht, writes) ==
    IF i >= numBufs
    THEN Outcome("ok", -1, descs, bufPool, ht, clockHand, filePages, writes)
    ELSE
      LET desc == descs[i]
          page == bufPool[i]
      IN IF desc.pinCnt # 0
         THEN Outcome("PagePinned", i, descs, bufPool, ht, clockHand, filePages,
                      writes)
         ELSE IF ~desc.valid
         THEN Outcome("BadBuffer", i, descs, bufPool, ht, clockHand, filePages,
                      writes)
         ELSE flushLoop(file, i + 1,
                        [descs EXCEPT ![i] = ClearedDesc],
                        IF HashHas(ht, file, page) THEN HashRemove(ht, file, page)
                        ELSE ht,
                        IF desc.dirty THEN writes \cup {<<file, page>>} ELSE writes)

flushFile(file) == flushLoop(file, 0, bufDescTable, hashTable, {})

\* ------------------------------------------------------------- disposePage
\* disposePage that leaves a pinned frame alone.
disposePageUnlessPinned(file, PageNo) ==
    LET files == [filePages EXCEPT ![file] = @ \ {PageNo}]
    IN IF HashHas(hashTable, file, PageNo)
          /\ bufDescTable[HashLookup(hashTable, file, PageNo)].pinCnt = 0
       THEN LET frameNo == HashLookup(hashTable, file, PageNo)
            IN Outcome("ok", frameNo,
                       [bufDescTable EXCEPT ![frameNo] = ClearedDesc],
                       bufPool, HashRemove(hashTable, file, PageNo), clockHand,
                       files, {})
       ELSE Outcome("ok", -1, bufDescTable, bufPool, hashTable, clockHand, files, {})

disposePage(file, PageNo) ==
    LET files == [filePages EXCEPT ![file] = @ \ {PageNo}]
    IN IF HashHas(hashTable, file, PageNo)
       THEN LET frameNo == HashLookup(hashTable, file, PageNo)
            IN Outcome("ok", frameNo,
                       [bufDescTable EXCEPT ![frameNo] = ClearedDesc],
                       bufPool, HashRemove(hashTable, file, PageNo), clockHand,
                       files, {})
       ELSE Outcome("ok", -1, bufDescTable, bufPool, hashTable, clockHand, files, {})

\* ----------------------------------------------------------- specification
\* A constructor that leaves the clock hand on frame 0.
InitHandAtZero ==
    /\ bufDescTable = [i \in Frames |-> ClearedDesc]
    /\ bufPool = [i \in Frames |-> INVALID_NUMBER]
    /\ hashTable = EmptyHash
    /\ clockHand = 0
    /\ filePages = [f \in Files |-> {1}]

\* BufMgr::BufMgr: every frame invalid, the hand one step before frame 0.
\* Each file starts with its first page.
Init ==
    /\ bufDescTable = [i \in Frames |-> ClearedDesc]
    /\ bufPool = [i \in Frames |-> INVALID_NUMBER]
    /\ hashTable = EmptyHash
    /\ clockHand = numBufs - 1
    /\ filePages = [f \in Files |-> {1}]

\* Each action is one call: the state after it is the state its outcome
\* left.  ReadPage drives no frame's pin count past MaxPin.
ReadPage ==
    \E file \in Files, pageNo \in Pages :
        LET r == readPage(file, pageNo)
        IN /\ \A i \in Frames : r.descs[i].pinCnt <= MaxPin
           /\ bufDescTable' = r.descs
           /\ bufPool' = r.pool
           /\ hashTable' = r.ht
           /\ clockHand' = r.hand
           /\ filePages' = r.files

UnPinPage ==
    \E file \in Files, pageNo \in Pages, dirty \in BOOLEAN :
        LET r == unPinPage(file, pageNo, dirty)
        IN /\ bufDescTable' = r.descs
           /\ bufPool' = r.pool
           /\ hashTable' = r.ht
           /\ clockHand' = r.hand
           /\ filePages' = r.files

AllocPage ==
    \E file \in Files : \E pageNo \in Pages \ filePages[file] :
        LET r == allocPage(file, pageNo)
        IN /\ bufDescTable' = r.descs
           /\ bufPool' = r.pool
           /\ hashTable' = r.ht
           /\ clockHand' = r.hand
           /\ filePages' = r.files

FlushFile ==
    \E file \in Files :
        LET r == flushFile(file)
        IN /\ bufDescTable' = r.descs
           /\ bufPool' = r.pool
           /\ hashTable' = r.ht
           /\ clockHand' = r.hand
           /\ filePages' = r.files

DisposePage ==
    \E file \in Files, pageNo \in Pages :
        LET r == disposePage(file, pageNo)
        IN /\ bufDescTable' = r.descs
           /\ bufPool' = r.pool
           /\ hashTable' = r.ht
           /\ clockHand' = r.hand
           /\ filePages' = r.files

Next == ReadPage \/ UnPinPage \/ AllocPage \/ FlushFile \/ DisposePage

Spec == Init /\ [][Next]_vars

\* =================================================================== claims
\* The page a frame holds, and the states the claims speak of.
Owner(i) == <<bufDescTable[i].file, bufDescTable[i].pageNo>>

EntriesOf(i) == {k \in DOMAIN hashTable : hashTable[k] = i}

AllPinned == \A i \in Frames : bufDescTable[i].valid /\ bufDescTable[i].pinCnt > 0

SameState(r) ==
    /\ r.descs = bufDescTable
    /\ r.pool = bufPool
    /\ r.ht = hashTable
    /\ r.hand = clockHand
    /\ r.files = filePages

\* C1: in every reachable state at most one occupied frame holds a given
\* (file, page number): no page is cached in two frames at once.
NoDuplicateCaching ==
    \A i, j \in Frames :
        (bufDescTable[i].valid /\ bufDescTable[j].valid /\ Owner(i) = Owner(j))
            => i = j

\* C2: in every reachable state a frame is occupied if and only if exactly
\* one hash-table entry maps to it, and the key of that entry is the frame's
\* owner.
FrameTableAgreement ==
    \A i \in Frames :
        bufDescTable[i].valid <=>
            (Cardinality(EntriesOf(i)) = 1 /\ EntriesOf(i) = {Owner(i)})

\* C3: in every reachable state, the frame allocBuf hands to a fetch that
\* misses or to an allocate has pin count 0 when it is chosen, occupied or
\* not.
ChosenFrameUnpinned ==
    \A file \in Files, pageNo \in Pages :
        /\ readPage(file, pageNo).status = "miss"
              => bufDescTable[readPage(file, pageNo).frame].pinCnt = 0
        /\ (pageNo \notin filePages[file] /\ allocPage(file, pageNo).status = "ok")
              => bufDescTable[allocPage(file, pageNo).frame].pinCnt = 0

\* C4: whenever allocBuf or flushFile clears a frame that was occupied and
\* dirty, the same call has written that frame's page to the file that owns
\* the frame.
WriteBackBeforeReuse ==
    /\ \A i \in Frames :
          (bufDescTable[i].valid /\ bufDescTable[i].dirty /\ ~allocBuf.descs[i].valid)
              => Owner(i) \in allocBuf.writes
    /\ \A file \in Files : \A i \in Frames :
          (bufDescTable[i].valid /\ bufDescTable[i].dirty
             /\ ~flushFile(file).descs[i].valid)
              => Owner(i) \in flushFile(file).writes

\* C5: a fetch of an uncached page of the file, or an allocate, fails with
\* BufferExceeded if and only if every frame is occupied and pinned; if some
\* frame is invalid or unpinned the call gets a frame and succeeds.
BufferExceededIffAllPinned ==
    \A file \in Files, pageNo \in Pages :
        /\ (~HashHas(hashTable, file, pageNo) /\ pageNo \in filePages[file])
              => /\ readPage(file, pageNo).status = "BufferExceeded" <=> AllPinned
                 /\ ~AllPinned => readPage(file, pageNo).status = "miss"
        /\ pageNo \notin filePages[file]
              => /\ allocPage(file, pageNo).status = "BufferExceeded" <=> AllPinned
                 /\ ~AllPinned => allocPage(file, pageNo).status = "ok"

\* C6: from every reachable state allocBuf inspects at most 2 * numBufs
\* descriptors and ends by returning a frame or by failing with
\* BufferExceeded.
AllocBufBounded ==
    /\ allocBuf.inspected <= 2 * numBufs
    /\ allocBuf.status \in {"ok", "BufferExceeded"}

\* C7: after a successful fetch of (file, pageNo) the hash table maps the key
\* to a frame with pin count >= 1 and refbit set; after a miss the frame has
\* pin count 1 and is clean; after a hit the frame is the one the key mapped
\* to, its pin count is one more than before and its dirty flag is as before.
FetchPostcondition ==
    \A file \in Files, pageNo \in Pages :
        LET r == readPage(file, pageNo)
        IN r.status \in {"hit", "miss"} =>
             /\ HashHas(r.ht, file, pageNo)
             /\ LET fr == HashLookup(r.ht, file, pageNo)
                    d == r.descs[fr]
                IN /\ d.pinCnt >= 1
                   /\ d.refbit
                   /\ r.status = "miss" => (d.pinCnt = 1 /\ ~d.dirty)
                   /\ r.status = "hit" =>
                        /\ fr = HashLookup(hashTable, file, pageNo)
                        /\ d.pinCnt = bufDescTable[fr].pinCnt + 1
                        /\ d.dirty = bufDescTable[fr].dirty

\* A page that was released dirty and has since been fetched twice: the
\* second fetch was a hit on a dirty frame.
FetchHitReached ==
    \E k \in DOMAIN hashTable :
        LET d == bufDescTable[hashTable[k]]
        IN d.valid /\ Owner(hashTable[k]) = k /\ d.pinCnt = 2 /\ d.refbit /\ d.dirty

\* C8: a release of a cached key whose frame has pin count 0 fails with
\* PageNotPinned and changes nothing; with pin count > 0 it succeeds and takes
\* exactly one pin; no pin count is ever below 0.
ReleaseCounts ==
    /\ \A i \in Frames : bufDescTable[i].pinCnt >= 0
    /\ \A file \in Files, pageNo \in Pages, dirty \in BOOLEAN :
          HashHas(hashTable, file, pageNo) =>
             LET fr == HashLookup(hashTable, file, pageNo)
                 r == unPinPage(file, pageNo, dirty)
             IN IF bufDescTable[fr].pinCnt = 0
                THEN r.status = "PageNotPinned" /\ SameState(r)
                ELSE /\ r.status = "ok"
                     /\ r.descs[fr].pinCnt = bufDescTable[fr].pinCnt - 1
                     /\ \A i \in Frames \ {fr} : r.descs[i] = bufDescTable[i]

\* A page fetched once and released once, marked dirty: its frame is back at
\* pin count 0 and a second release of it fails with PageNotPinned.
SecondReleaseReached ==
    \E k \in DOMAIN hashTable :
        LET d == bufDescTable[hashTable[k]]
        IN /\ d.valid /\ Owner(hashTable[k]) = k /\ d.pinCnt = 0 /\ d.dirty
           /\ unPinPage(k[1], k[2], TRUE).status = "PageNotPinned"

\* C9: a release of a key that is not cached fails with PageNotPinned and
\* leaves the state as it was.
ReleaseUncachedNotPinned ==
    \A file \in Files, pageNo \in Pages, dirty \in BOOLEAN :
        ~HashHas(hashTable, file, pageNo) =>
            /\ unPinPage(file, pageNo, dirty).status = "PageNotPinned"
            /\ SameState(unPinPage(file, pageNo, dirty))

\* C10: in every reachable state a fetch ends as a hit, a miss, with
\* BufferExceeded or with the file's own failure on a page it does not hold,
\* and an allocate ends well or with BufferExceeded: the hash table's
\* failures never reach the caller.
NotFoundNeverSurfaced ==
    \A file \in Files, pageNo \in Pages :
        /\ readPage(file, pageNo).status
              \in {"hit", "miss", "BufferExceeded", "InvalidPage"}
        /\ pageNo \notin filePages[file]
              => allocPage(file, pageNo).status \in {"ok", "BufferExceeded"}

\* The entries of the hash table ht that map to frame i.
EntriesIn(ht, i) == {k \in DOMAIN ht : ht[k] = i}

\* The lowest frame at which the scan of flushFile stops for cause: the first
\* frame that is pinned or not occupied (numBufs if there is none).
FirstStop ==
    LET bad == {i \in Frames : bufDescTable[i].pinCnt # 0 \/ ~bufDescTable[i].valid}
    IN IF bad = {} THEN numBufs
       ELSE CHOOSE i \in bad : \A j \in bad : i <= j

\* C11: flushFile fails with PagePinned at the lowest frame with a pin count
\* other than 0 when every lower frame is occupied; every lower frame has then
\* been written back if dirty, cleared, and has lost its hash-table entry,
\* while the pinned frame and every higher frame, with their entries, are as
\* before the call.
FlushStopsAtPinned ==
    \A file \in Files :
        LET r == flushFile(file)
            j == FirstStop
        IN (j < numBufs /\ bufDescTable[j].pinCnt # 0) =>
             /\ r.status = "PagePinned"
             /\ r.frame = j
             /\ \A i \in Frames :
                   IF i < j
                   THEN /\ r.descs[i] = ClearedDesc
                        /\ bufDescTable[i].dirty
                              => \E w \in r.writes : w[2] = bufDescTable[i].pageNo
                        /\ Owner(i) \notin DOMAIN r.ht
                        /\ EntriesIn(r.ht, i) = {}
                   ELSE /\ r.descs[i] = bufDescTable[i]
                        /\ EntriesIn(r.ht, i) = EntriesOf(i)

\* C12: flushFile fails with BadBuffer when its scan reaches a frame that is
\* not occupied and has pin count 0 before any pinned frame, the pin test
\* coming first on each frame; it ends without error only if every frame is
\* occupied with pin count 0, and then leaves every frame invalid.
FlushBadBuffer ==
    \A file \in Files :
        LET r == flushFile(file)
            j == FirstStop
        IN /\ (j < numBufs /\ bufDescTable[j].pinCnt = 0)
                => (r.status = "BadBuffer" /\ r.frame = j)
           /\ (j < numBufs /\ bufDescTable[j].pinCnt # 0)
                => (r.status = "PagePinned" /\ r.frame = j)
           /\ r.status = "ok"
                => /\ \A i \in Frames :
                         bufDescTable[i].valid /\ bufDescTable[i].pinCnt = 0
                   /\ \A i \in Frames : ~r.descs[i].valid

\* Frame 0 holds a dirty unpinned page and frame 1 is invalid: a flush clears
\* frame 0 after writing it and fails with BadBuffer at frame 1.
FlushBadBufferReached ==
    /\ numBufs > 1
    /\ bufDescTable[0].valid /\ bufDescTable[0].dirty /\ bufDescTable[0].pinCnt = 0
    /\ ~bufDescTable[1].valid /\ bufDescTable[1].pinCnt = 0
    /\ \E file \in Files :
          /\ flushFile(file).status = "BadBuffer"
          /\ flushFile(file).frame = 1
          /\ ~flushFile(file).descs[0].valid

\* C13: in every reachable state a frame that is not occupied has pin count
\* 0 and is neither dirty nor referenced.
InvalidFrameIsBlank ==
    \A i \in Frames :
        ~bufDescTable[i].valid =>
            /\ bufDescTable[i].pinCnt = 0
            /\ ~bufDescTable[i].dirty
            /\ ~bufDescTable[i].refbit

\* C14: in every call, a frame's pin count goes down only in an unPinPage of
\* the page the frame holds, and goes up only in a readPage that hits the
\* frame or in a readPage miss or allocPage that installs a page in it.
PinCountMoves ==
    /\ \A file \in Files, pageNo \in Pages : \A i \in Frames :
          LET r == readPage(file, pageNo)
          IN /\ r.descs[i].pinCnt >= bufDescTable[i].pinCnt
             /\ r.descs[i].pinCnt > bufDescTable[i].pinCnt
                   => (r.status \in {"hit", "miss"} /\ r.frame = i)
    /\ \A file \in Files, pageNo \in Pages, dirty \in BOOLEAN : \A i \in Frames :
          LET r == unPinPage(file, pageNo, dirty)
          IN /\ r.descs[i].pinCnt <= bufDescTable[i].pinCnt
             /\ r.descs[i].pinCnt < bufDescTable[i].pinCnt
                   => (bufDescTable[i].valid /\ Owner(i) = <<file, pageNo>>)
    /\ \A file \in Files, pageNo \in Pages : \A i \in Frames :
          pageNo \notin filePages[file] =>
             LET r == allocPage(file, pageNo)
             IN /\ r.descs[i].pinCnt >= bufDescTable[i].pinCnt
                /\ r.descs[i].pinCnt > bufDescTable[i].pinCnt
                      => (r.status = "ok" /\ r.frame = i)
    /\ \A file \in Files : \A i \in Frames :
          flushFile(file).descs[i].pinCnt = bufDescTable[i].pinCnt
    /\ \A file \in Files, pageNo \in Pages : \A i \in Frames :
          disposePage(file, pageNo).descs[i].pinCnt = bufDescTable[i].pinCnt

\* The call with outcome r cleared frame i.
ClearedBy(r, i) == r.descs[i] = ClearedDesc

\* C15: the dirty flag is sticky: an unPinPage with dirty = false leaves it
\* as it was, a readPage hit leaves it as it was, and it goes back to false
\* only when the frame is cleared by an eviction, by flushFile or by
\* disposePage.
DirtyIsSticky ==
    /\ \A file \in Files, pageNo \in Pages : \A i \in Frames :
          /\ unPinPage(file, pageNo, FALSE).descs[i].dirty = bufDescTable[i].dirty
          /\ bufDescTable[i].dirty => unPinPage(file, pageNo, TRUE).descs[i].dirty
          /\ readPage(file, pageNo).status = "hit"
                => readPage(file, pageNo).descs[i].dirty = bufDescTable[i].dirty
          /\ (bufDescTable[i].dirty /\ ~readPage(file, pageNo).descs[i].dirty)
                => (bufDescTable[i].valid /\ ~allocBuf.descs[i].valid)
          /\ (pageNo \notin filePages[file] /\ bufDescTable[i].dirty
                /\ ~allocPage(file, pageNo).descs[i].dirty)
                => (bufDescTable[i].valid /\ ~allocBuf.descs[i].valid)
          /\ (bufDescTable[i].dirty /\ ~disposePage(file, pageNo).descs[i].dirty)
                => ClearedBy(disposePage(file, pageNo), i)
    /\ \A file \in Files : \A i \in Frames :
          (bufDescTable[i].dirty /\ ~flushFile(file).descs[i].dirty)
                => ClearedBy(flushFile(file), i)

FilledUpTo(k) ==
    /\ \A i \in Frames : bufDescTable[i].valid <=> i < k
    /\ clockHand = (k + numBufs - 1) % numBufs

After(k) == (clockHand + k) % numBufs

\* Positions, counted from the hand, of the frames a first pass takes: an
\* invalid frame, or an occupied one that is unreferenced and unpinned.
FirstPass ==
    {k \in 1..numBufs :
        \/ ~bufDescTable[After(k)].valid
        \/ (~bufDescTable[After(k)].refbit /\ bufDescTable[After(k)].pinCnt = 0)}

\* Positions of the frames a second pass takes: any frame with pin count 0.
SecondPass == {k \in 1..numBufs : bufDescTable[After(k)].pinCnt = 0}

Least(S) == CHOOSE k \in S : \A j \in S : k <= j

\* The second-chance choice: the frame to take, and the positions passed over.
SecondChance ==
    IF FirstPass # {}
    THEN [frame |-> After(Least(FirstPass)), passed |-> 1..(Least(FirstPass) - 1)]
    ELSE IF SecondPass # {}
    THEN [frame |-> After(Least(SecondPass)), passed |-> 1..numBufs]
    ELSE [frame |-> -1, passed |-> 1..numBufs]

\* C18: the frame allocBuf returns is the second-chance choice: the first
\* frame after the hand that is invalid or occupied, unreferenced and
\* unpinned, else the first frame after the hand with pin count 0; the frames
\* passed over have lost their refbit and nothing else, the frames not
\* reached are as before, and the hand ends on the frame returned.
AllocBufIsSecondChance ==
    LET a == allocBuf
        c == SecondChance
    IN a.status = "ok" =>
         /\ a.frame = c.frame
         /\ a.hand = a.frame
         /\ \A i \in Frames \ {a.frame} :
               IF \E k \in c.passed : After(k) = i
               THEN a.descs[i] = [bufDescTable[i] EXCEPT !.refbit = FALSE]
               ELSE a.descs[i] = bufDescTable[i]

\* Every frame is occupied and referenced and one is unpinned: the first
\* pass spares them all and the second pass evicts.
SecondPassReached ==
    /\ \A i \in Frames : bufDescTable[i].valid /\ bufDescTable[i].refbit
    /\ FirstPass = {} /\ SecondPass # {}
    /\ allocBuf.status = "ok"
    /\ allocBuf.inspected > numBufs

\* C19: flushFile(file) leaves every frame owned by another file, and the
\* hash-table entries of that frame, as they were, and writes only pages of
\* frames owned by file.
FlushTouchesOwnFile ==
    \A file \in Files :
        LET r == flushFile(file)
        IN /\ \A i \in Frames :
                 (bufDescTable[i].valid /\ bufDescTable[i].file # file)
                    => /\ r.descs[i] = bufDescTable[i]
                       /\ EntriesIn(r.ht, i) = EntriesOf(i)
           /\ \A w \in r.writes :
                 \E i \in Frames : bufDescTable[i].valid /\ Owner(i) = w

\* C20: a readPage that fails with BufferExceeded leaves the hash table, the
\* buffers, the files, the hand and every descriptor as they were except that
\* every refbit is false, after 2 * numBufs inspections and no write; an
\* allocPage that fails with BufferExceeded does the same, and the file has
\* the new page, which is not cached.
BufferExceededLeavesCache ==
    \A file \in Files, pageNo \in Pages :
        /\ LET r == readPage(file, pageNo)
           IN r.status = "BufferExceeded" =>
                /\ r.ht = hashTable /\ r.pool = bufPool /\ r.hand = clockHand
                /\ r.files = filePages /\ r.writes = {}
                /\ allocBuf.inspected = 2 * numBufs
                /\ \A i \in Frames :
                      r.descs[i] = [bufDescTable[i] EXCEPT !.refbit = FALSE]
        /\ pageNo \notin filePages[file] =>
             LET r == allocPage(file, pageNo)
             IN r.status = "BufferExceeded" =>
                  /\ r.ht = hashTable /\ r.pool = bufPool /\ r.hand = clockHand
                  /\ r.files = [filePages EXCEPT ![file] = @ \cup {pageNo}]
                  /\ r.writes = {}
                  /\ ~HashHas(r.ht, file, pageNo)
                  /\ \A i \in Frames :
                        r.descs[i] = [bufDescTable[i] EXCEPT !.refbit = FALSE]

\* Every frame is occupied and pinned and every refbit is off, as a failed
\* search leaves them, and a further miss fails again.
BufferExceededReached ==
    /\ AllPinned
    /\ \A i \in Frames : ~bufDescTable[i].refbit
    /\ \E file \in Files, pageNo \in Pages :
          readPage(file, pageNo).status = "BufferExceeded"
====
